---- MODULE Spec2Model ----
(***************************************************************************)
(* The cognitive-bias quiz of src/app.py as a state machine.               *)
(*                                                                         *)
(* The program state is Streamlit's per-session store (st.session_state):  *)
(* the keys quiz, revealed and submitted.  Each handler of the source      *)
(* (set_answer, go_prev, go_next, restart_quiz, the View Results lambda,   *)
(* the page body) is an operator from a session to the session it leaves   *)
(* behind together with the exception it raised, if any.                   *)
(*                                                                         *)
(* Python values are encoded as follows:                                   *)
(*   Optional[bool]          <<>> for None, <<b>> for the bool b           *)
(*   "quiz" in session_state session.quiz is <<q>>; <<>> when the key is   *)
(*                           absent                                        *)
(*   list                    a sequence; Python index i is element i + 1   *)
(*   raw JSON is_authentic   "true", "false", or "absent" (key missing)    *)
(***************************************************************************)
EXTENDS Integers, Sequences, FiniteSets, TLC

\* The loader's limit parameter.  The source's default is 10; the model
\* runs it scaled down so that truncation and every quiz length are explored.
Limit == 3

\* The longest "biases" list a data file holds in the model (longer than
\* Limit, so that data[:limit] really truncates).
MaxRecords == 4

VARIABLES
    session,    \* st.session_state: [quiz, revealed, submitted]
    last,       \* the most recent handler call, with what the session was before it
    prev        \* the handler call before that one

vars == <<session, last, prev>>

----------------------------------------------------------------------------
(* Data models *)

None == << >>

Some(b) == <<b>>

\* Answer(): value = None, is_correct = None
Answer == [value |-> None, is_correct |-> None]

\* Python truthiness of an Optional[bool]: None and False are falsy.
Truthy(x) == x = Some(TRUE)

\* The values the key "is_authentic" takes in a record of the data file.
RawValues == {"true", "false", "absent"}

\* CognitiveBias.from_dict: is_authentic = bool(data.get("is_authentic", False)).
\* Only is_authentic takes part in the quiz logic; the text fields are carried
\* to the renderer untouched and are left out.
from_dict(data) ==
    [is_authentic |-> IF data = "absent" THEN FALSE ELSE data = "true"]

----------------------------------------------------------------------------
(* Data loading *)

\* What one candidate file can be: not there, not valid JSON, or a JSON
\* document whose "biases" list is the given sequence of records.
Records == UNION {[1..n -> RawValues] : n \in 0..MaxRecords}

FileKinds == {"missing", "malformed", "document"}

\* _try_and_load: [] for a missing or malformed file, else the "biases" list.
try_and_load(kind, records) ==
    IF kind = "document" THEN records ELSE << >>

\* The loop of load_and_shuffle_data over the candidate files, in order:
\* data is the first non-empty list, or the (empty) last one loaded.
RECURSIVE first_non_empty(_, _)
first_non_empty(files, k) ==
    IF k > Len(files) THEN << >>
    ELSE LET data == try_and_load(files[k].kind, files[k].records)
         IN  IF data # << >> THEN data
             ELSE first_non_empty(files, k + 1)

\* The rearrangements of n positions, tabulated for every list length.
Perms ==
    [n \in 0..MaxRecords |->
        {p \in [1..n -> 1..n] : \A i, j \in 1..n : p[i] = p[j] => i = j}]

\* random.shuffle(data): any rearrangement of data.
shuffle(data) ==
    {[i \in 1..Len(data) |-> data[p[i]]] : p \in Perms[Len(data)]}

Min(a, b) == IF a < b THEN a ELSE b

\* data[:limit]
take(data, limit) == SubSeq(data, 1, Min(Len(data), limit))

\* The three candidate files.  Only the first non-empty document is used, so
\* the documents of one draw share their records.
FileDraws ==
    {[k \in 1..3 |-> [kind |-> kinds[k], records |-> r]] :
        kinds \in [1..3 -> FileKinds], r \in Records}

\* The values data can have when the loop over the candidate files ends.
Loaded == {first_non_empty(files, 1) : files \in FileDraws}

\* load_and_shuffle_data(limit) after its loop has left data: the set of
\* lists it can return, or {} when it calls st.stop() (StopException).
load_and_shuffle_data(data, limit) ==
    IF data = << >> THEN {}
    ELSE {take(d, limit) : d \in shuffle(data)}

\* create_quiz on the loop's data: the quizzes it can return.
create_quiz(data) ==
    {[biases |-> [i \in 1..Len(d) |-> from_dict(d[i])],
      answers |-> [i \in 1..Len(d) |-> Answer],
      current_index |-> 0] : d \in load_and_shuffle_data(data, Limit)}

\* Every way a call of create_quiz can end, over all file contents and
\* shuffles: <<q>> when it returns the quiz q, << >> when it raises
\* StopException.
CreateOutcomes ==
    UNION {IF create_quiz(data) = {} THEN {<< >>}
           ELSE {<<q>> : q \in create_quiz(data)} : data \in Loaded}

----------------------------------------------------------------------------
(* Helpers for session state *)

HasQuiz(s) == s.quiz # << >>

\* What a handler call leaves behind: the session, and the exception that
\* ended the call ("none" when it returned).
Return(s) == [s |-> s, exc |-> "none"]

Raise(s, e) == [s |-> s, exc |-> e]

\* get_state storing a quiz of no questions when create_quiz stops.
get_state_empty(s, created) ==
    IF HasQuiz(s) THEN s
    ELSE IF created = << >>
         THEN [s EXCEPT !.quiz = <<[biases |-> << >>, answers |-> << >>,
                                    current_index |-> 0]>>]
         ELSE [s EXCEPT !.quiz = created]

\* get_state: creates the quiz when the key is absent; created is the way that
\* call of create_quiz ends.  A StopException is swallowed and the key stays
\* absent.  revealed and submitted are present from the first page run on.
get_state(s, created) ==
    IF HasQuiz(s) THEN s ELSE [s EXCEPT !.quiz = created]

\* The ways the create_quiz call inside get_state can end; get_state makes no
\* call when the quiz is there.
GetStateDraws(s) == IF HasQuiz(s) THEN {<< >>} ELSE CreateOutcomes

\* set_answer appending the answer to the list instead of writing it at i.
set_answer_appending(s0, created, value) ==
    LET s == get_state(s0, created)
    IN  IF s.submitted THEN Return(s)
        ELSE IF ~HasQuiz(s) THEN Raise(s, "AttributeError")
        ELSE LET q == s.quiz[1]
                 i == q.current_index
             IN  Return([s EXCEPT
                    !.quiz[1].answers = Append(q.answers,
                        [value |-> Some(value),
                         is_correct |-> Some(value = q.biases[i + 1].is_authentic)]),
                    !.revealed = TRUE])

\* set_answer on a list whose entries are all one shared Answer object.
set_answer_aliased(s0, created, value) ==
    LET s == get_state(s0, created)
    IN  IF s.submitted THEN Return(s)
        ELSE IF ~HasQuiz(s) THEN Raise(s, "AttributeError")
        ELSE LET q == s.quiz[1]
                 i == q.current_index
             IN  Return([s EXCEPT
                    !.quiz[1].answers = [k \in 1..Len(q.answers) |->
                        [value |-> Some(value),
                         is_correct |-> Some(value = q.biases[i + 1].is_authentic)]],
                    !.revealed = TRUE])

\* set_answer storing the guess itself as is_correct.
set_answer_uncompared(s0, created, value) ==
    LET s == get_state(s0, created)
    IN  IF s.submitted THEN Return(s)
        ELSE IF ~HasQuiz(s) THEN Raise(s, "AttributeError")
        ELSE Return([s EXCEPT
                !.quiz[1].answers[s.quiz[1].current_index + 1] =
                    [value |-> Some(value), is_correct |-> Some(value)],
                !.revealed = TRUE])

\* set_answer without its check of submitted.
set_answer_unguarded(s0, created, value) ==
    LET s == get_state(s0, created)
    IN  IF ~HasQuiz(s) THEN Raise(s, "AttributeError")
        ELSE LET q == s.quiz[1]
                 i == q.current_index
             IN  Return([s EXCEPT
                    !.quiz[1].answers[i + 1] =
                        [value |-> Some(value),
                         is_correct |-> Some(value = q.biases[i + 1].is_authentic)],
                    !.revealed = TRUE])

\* set_answer that forgets to set revealed.
set_answer_unrevealed(s0, created, value) ==
    LET s == get_state(s0, created)
    IN  IF s.submitted THEN Return(s)
        ELSE IF ~HasQuiz(s) THEN Raise(s, "AttributeError")
        ELSE LET q == s.quiz[1]
                 i == q.current_index
             IN  Return([s EXCEPT
                    !.quiz[1].answers[i + 1] =
                        [value |-> Some(value),
                         is_correct |-> Some(value = q.biases[i + 1].is_authentic)]])

\* set_answer that keeps the first answer given to a question.
set_answer_locked(s0, created, value) ==
    LET s == get_state(s0, created)
    IN  IF s.submitted THEN Return(s)
        ELSE IF ~HasQuiz(s) THEN Raise(s, "AttributeError")
        ELSE LET q == s.quiz[1]
                 i == q.current_index
             IN  IF q.answers[i + 1].value # None THEN Return(s)
                 ELSE Return([s EXCEPT
                        !.quiz[1].answers[i + 1] =
                            [value |-> Some(value),
                             is_correct |-> Some(value = q.biases[i + 1].is_authentic)],
                        !.revealed = TRUE])

set_answer(s0, created, value) ==
    LET s == get_state(s0, created)
    IN  IF s.submitted THEN Return(s)
        ELSE IF ~HasQuiz(s) THEN Raise(s, "AttributeError")
        ELSE LET q == s.quiz[1]
                 i == q.current_index
             IN  IF i >= Len(q.biases) THEN Return(s)
                 ELSE IF i >= Len(q.answers) THEN Raise(s, "IndexError")
                 ELSE Return([s EXCEPT
                        !.quiz[1].answers[i + 1] =
                            [value |-> Some(value),
                             is_correct |-> Some(value = q.biases[i + 1].is_authentic)],
                        !.revealed = TRUE])

\* The last two statements of go_prev and go_next, on the moved cursor i.
reveal_at(s, i) ==
    LET moved == [s EXCEPT !.quiz[1].current_index = i]
    IN  IF i >= Len(s.quiz[1].answers) THEN Raise(moved, "IndexError")
        ELSE Return([moved EXCEPT
                !.revealed = (s.quiz[1].answers[i + 1].value # None)])

\* go_prev that leaves revealed as it was.
go_prev_stale(s0, created) ==
    LET s == get_state(s0, created)
    IN  IF s.submitted THEN Return(s)
        ELSE IF ~HasQuiz(s) THEN Raise(s, "AttributeError")
        ELSE LET i == s.quiz[1].current_index
             IN  Return([s EXCEPT !.quiz[1].current_index = IF i > 0 THEN i - 1 ELSE i])

go_prev(s0, created) ==
    LET s == get_state(s0, created)
    IN  IF s.submitted THEN Return(s)
        ELSE IF ~HasQuiz(s) THEN Raise(s, "AttributeError")
        ELSE LET i == s.quiz[1].current_index
             IN  reveal_at(s, IF i > 0 THEN i - 1 ELSE i)

\* go_next that leaves revealed as it was.
go_next_stale(s0, created) ==
    LET s == get_state(s0, created)
    IN  IF s.submitted THEN Return(s)
        ELSE IF ~HasQuiz(s) THEN Raise(s, "AttributeError")
        ELSE LET i == s.quiz[1].current_index
             IN  Return([s EXCEPT !.quiz[1].current_index =
                            IF i < Len(s.quiz[1].biases) - 1 THEN i + 1 ELSE i])

\* go_next without the cap at the last question.
go_next_uncapped(s0, created) ==
    LET s == get_state(s0, created)
    IN  IF s.submitted THEN Return(s)
        ELSE IF ~HasQuiz(s) THEN Raise(s, "AttributeError")
        ELSE reveal_at(s, s.quiz[1].current_index + 1)

\* go_next that hands the question it moves to a new Answer().
go_next_clearing(s0, created) ==
    LET s == get_state(s0, created)
    IN  IF s.submitted THEN Return(s)
        ELSE IF ~HasQuiz(s) THEN Raise(s, "AttributeError")
        ELSE LET i == s.quiz[1].current_index
                 j == IF i < Len(s.quiz[1].biases) - 1 THEN i + 1 ELSE i
             IN  Return([s EXCEPT !.quiz[1].current_index = j,
                                  !.quiz[1].answers[j + 1] = Answer,
                                  !.revealed = FALSE])

go_next(s0, created) ==
    LET s == get_state(s0, created)
    IN  IF s.submitted THEN Return(s)
        ELSE IF ~HasQuiz(s) THEN Raise(s, "AttributeError")
        ELSE LET i == s.quiz[1].current_index
             IN  reveal_at(s, IF i < Len(s.quiz[1].biases) - 1 THEN i + 1 ELSE i)

\* all(a.value is not None for a in q.answers)
all_answered(q) == \A k \in 1..Len(q.answers) : q.answers[k].value # None

\* restart_quiz that leaves submitted as it was.
restart_quiz_unreset(s, created) ==
    IF created = << >> THEN Raise(s, "StopException")
    ELSE Return([quiz |-> created, revealed |-> FALSE, submitted |-> s.submitted])

\* restart_quiz: create_quiz is called first; when it raises, nothing is
\* assigned.
restart_quiz(s, created) ==
    IF created = << >> THEN Raise(s, "StopException")
    ELSE Return([quiz |-> created, revealed |-> FALSE, submitted |-> FALSE])

\* The on_click of "View Results": setattr(state, "submitted", True).
submit(s) == Return([s EXCEPT !.submitted = TRUE])

----------------------------------------------------------------------------
(* UI pieces *)

\* The count of show_results taken over value instead of is_correct.
RECURSIVE count_value(_, _)
count_value(answers, k) ==
    IF k > Len(answers) THEN 0
    ELSE (IF Truthy(answers[k].value) THEN 1 ELSE 0)
         + count_value(answers, k + 1)

RECURSIVE count_correct(_, _)
count_correct(answers, k) ==
    IF k > Len(answers) THEN 0
    ELSE (IF Truthy(answers[k].is_correct) THEN 1 ELSE 0)
         + count_correct(answers, k + 1)

\* The score show_results prints, as <<correct, total>>.
show_results(q) == <<count_correct(q.answers, 1), Len(q.biases)>>

\* show_quiz_view rendering the answer buttons whether or not revealed.
show_quiz_view_unlocked(q, revealed) ==
    LET i == q.current_index
        total == Len(q.biases)
    IN  {"Authentic", "Fake"}
        \cup (IF ~all_answered(q) /\ ~(i = 0) THEN {"Prev. Bias"} ELSE {})
        \cup (IF ~all_answered(q) /\ ~(i = total - 1) THEN {"Next Bias"} ELSE {})

\* show_quiz_view rendering the navigation under "not revealed" instead of
\* "not all_answered".
show_quiz_view_stuck(q, revealed) ==
    LET i == q.current_index
        total == Len(q.biases)
    IN  (IF ~revealed THEN {"Authentic", "Fake"} ELSE {})
        \cup (IF ~revealed /\ ~(i = 0) THEN {"Prev. Bias"} ELSE {})
        \cup (IF ~revealed /\ ~(i = total - 1) THEN {"Next Bias"} ELSE {})

\* show_quiz_view with "Prev. Bias" never disabled.
show_quiz_view_undisabled(q, revealed) ==
    LET i == q.current_index
        total == Len(q.biases)
    IN  (IF ~revealed THEN {"Authentic", "Fake"} ELSE {})
        \cup (IF ~all_answered(q) THEN {"Prev. Bias"} ELSE {})
        \cup (IF ~all_answered(q) /\ ~(i = total - 1) THEN {"Next Bias"} ELSE {})

\* The buttons show_quiz_view renders enabled.
show_quiz_view(q, revealed) ==
    LET i == q.current_index
        total == Len(q.biases)
    IN  (IF ~revealed THEN {"Authentic", "Fake"} ELSE {})
        \cup (IF ~all_answered(q) /\ ~(i = 0) THEN {"Prev. Bias"} ELSE {})
        \cup (IF ~all_answered(q) /\ ~(i = total - 1) THEN {"Next Bias"} ELSE {})

\* The page body rendering "View Results" whether or not all is answered.
page_ungated(s) ==
    IF ~HasQuiz(s) THEN {}
    ELSE IF s.submitted THEN {"Restart quiz"}
    ELSE show_quiz_view(s.quiz[1], s.revealed) \cup {"View Results"}

\* The page body after get_state: the buttons a user can click.
page(s) ==
    IF ~HasQuiz(s) THEN {}
    ELSE IF s.submitted THEN {"Restart quiz"}
    ELSE show_quiz_view(s.quiz[1], s.revealed)
         \cup (IF all_answered(s.quiz[1]) THEN {"View Results"} ELSE {})

----------------------------------------------------------------------------
(* The state machine *)

\* What is remembered of the session a handler was called on.
Before(s) ==
    [had_quiz |-> HasQuiz(s),
     index |-> IF HasQuiz(s) THEN s.quiz[1].current_index ELSE 0,
     submitted |-> s.submitted]

\* What became of the loader during a call that goes through get_state:
\* it is not called when the quiz is there, and else it finds data or stops.
Loader(s, created) ==
    IF HasQuiz(s) THEN "not called"
    ELSE IF created = << >> THEN "stop" ELSE "data"

\* The session_state of a new session, before the first page run.
NewSession == [quiz |-> << >>, revealed |-> FALSE, submitted |-> FALSE]

Call(op, arg, loader, result) ==
    /\ session' = result.s
    /\ last' = [op |-> op, arg |-> arg, exc |-> result.exc, loader |-> loader,
                before |-> Before(session)]
    /\ prev' = last

\* The first page run of a session: get_state on an empty session_state.
Init ==
    /\ \E created \in GetStateDraws(NewSession) :
          /\ session = get_state(NewSession, created)
          /\ last = [op |-> "page", arg |-> FALSE, exc |-> "none",
                     loader |-> Loader(NewSession, created),
                     before |-> Before(NewSession)]
    /\ prev = last

\* The transitions, callable in any order.
SetAnswer ==
    \E value \in BOOLEAN : \E created \in GetStateDraws(session) :
        Call("answer", value, Loader(session, created),
             set_answer(session, created, value))

GoPrev ==
    \E created \in GetStateDraws(session) :
        Call("goPrev", FALSE, Loader(session, created), go_prev(session, created))

GoNext ==
    \E created \in GetStateDraws(session) :
        Call("goNext", FALSE, Loader(session, created), go_next(session, created))

Submit == Call("submit", FALSE, "not called", submit(session))

Restart ==
    \E created \in CreateOutcomes :
        Call("restart", FALSE, Loader(NewSession, created),
               restart_quiz(session, created))

Next == SetAnswer \/ GoPrev \/ GoNext \/ Submit \/ Restart

Spec == Init /\ [][Next]_vars

\* The transitions as the rendered page offers them: a click runs the
\* button's handler, and only buttons the page renders enabled can be clicked.
ClickAnswer ==
    \E value \in BOOLEAN :
        /\ (IF value THEN "Authentic" ELSE "Fake") \in page(session)
        /\ Call("answer", value, "not called", set_answer(session, << >>, value))

ClickPrev ==
    /\ "Prev. Bias" \in page(session)
    /\ Call("goPrev", FALSE, "not called", go_prev(session, << >>))

ClickNext ==
    /\ "Next Bias" \in page(session)
    /\ Call("goNext", FALSE, "not called", go_next(session, << >>))

ClickViewResults ==
    /\ "View Results" \in page(session)
    /\ Call("submit", FALSE, "not called", submit(session))

ClickRestart ==
    /\ "Restart quiz" \in page(session)
    /\ \E created \in CreateOutcomes :
          Call("restart", FALSE, Loader(NewSession, created),
               restart_quiz(session, created))

\* A rerun of the script with no button clicked: the page body calls get_state.
Rerun ==
    \E created \in GetStateDraws(session) :
        Call("page", FALSE, Loader(session, created),
             Return(get_state(session, created)))

NextUI ==
    ClickAnswer \/ ClickPrev \/ ClickNext \/ ClickViewResults \/ ClickRestart \/ Rerun

SpecUI == Init /\ [][NextUI]_vars

----------------------------------------------------------------------------
(* Properties *)

Quiz == session.quiz[1]

N == Len(Quiz.biases)

QuizCalls == {"answer", "goPrev", "goNext"}

\* C1: for every index i, answers[i].is_correct is set iff answers[i].value is
\* set, and when set it equals (answers[i].value == biases[i].is_authentic).
C1_CorrectnessDerived ==
    HasQuiz(session) =>
        \A i \in 1..Len(Quiz.answers) :
            LET a == Quiz.answers[i]
            IN  /\ (a.is_correct # None) <=> (a.value # None)
                /\ a.value # None =>
                      a.is_correct = Some(a.value[1] = Quiz.biases[i].is_authentic)

\* A question answered wrongly and another answered rightly.
C1_Witness ==
    /\ HasQuiz(session)
    /\ \E i, j \in 1..Len(Quiz.answers) :
          /\ Quiz.answers[i].is_correct = Some(FALSE)
          /\ Quiz.answers[j].is_correct = Some(TRUE)

\* C2: a quiz has N >= 1 questions and 0 <= current_index <= N - 1, so no
\* call of set_answer, go_prev or go_next on a quiz raises on an index.
C2_IndexInRange ==
    /\ HasQuiz(session) =>
          /\ N >= 1
          /\ Len(Quiz.answers) = N
          /\ 0 <= Quiz.current_index
          /\ Quiz.current_index <= N - 1
    /\ (last.op \in QuizCalls /\ last.before.had_quiz) => last.exc = "none"

\* go_next was called on the last question of a quiz of several.
C2_Witness ==
    /\ HasQuiz(session)
    /\ N >= 2
    /\ last.op = "goNext"
    /\ last.before.had_quiz
    /\ ~last.before.submitted
    /\ last.before.index = N - 1

\* C3: on a submitted quiz every call but restart leaves the whole session
\* as it is: answer, goPrev and goNext are no-ops, and submitted stays true.
C3_SubmittedFrozen ==
    [][(HasQuiz(session) /\ session.submitted /\ last'.op # "restart")
          => session' = session]_vars

\* An answer was attempted on a submitted quiz that has an unanswered question.
C3_Witness ==
    /\ HasQuiz(session)
    /\ last.op = "answer"
    /\ last.before.had_quiz
    /\ last.before.submitted
    /\ Quiz.answers[Quiz.current_index + 1].value = None

\* C4: driven by the rendered controls, submitted implies that every answer
\* has a value.
C4_SubmittedImpliesAllAnswered ==
    session.submitted => (HasQuiz(session) /\ all_answered(Quiz))

\* "View Results" was clicked.
C4_Witness ==
    /\ session.submitted
    /\ last.op = "submit"

\* C5: no call but restart unsets an answer's value, so once all_answered is
\* true it stays true until restart.
C5_AllAnsweredMonotone ==
    [][(HasQuiz(session) /\ last'.op # "restart") =>
          /\ HasQuiz(session')
          /\ \A i \in 1..Len(Quiz.answers) :
                Quiz.answers[i].value # None =>
                    session'.quiz[1].answers[i].value # None
          /\ all_answered(Quiz) => all_answered(session'.quiz[1])]_vars

\* All of several questions were answered before a navigation call.
C5_Witness ==
    /\ HasQuiz(session)
    /\ N >= 2
    /\ all_answered(Quiz)
    /\ last.op = "goNext"
    /\ ~last.before.submitted
    /\ prev.op = "answer"

Fresh ==
    /\ HasQuiz(session)
    /\ Quiz.current_index = 0
    /\ ~session.revealed
    /\ ~session.submitted
    /\ Len(Quiz.answers) = N
    /\ \A i \in 1..N : Quiz.answers[i] = Answer
    /\ 1 <= N
    /\ N <= Limit

\* C6 as stated: restart, applied to a quiz in any reachable state (mid-quiz
\* or after submission), yields the state of a freshly created quiz.
C6_RestartAlwaysFresh ==
    (last.op = "restart" /\ last.before.had_quiz) => Fresh

\* C6 amended: a restart whose create_quiz returns yields the state of a
\* freshly created quiz; one whose create_quiz raises leaves the session as
\* it was.
C6_RestartFreshOrUnchanged ==
    [][last'.op = "restart" =>
          IF last'.exc = "none" THEN Fresh' ELSE session' = session]_vars

\* A submitted quiz of Limit questions was restarted into a new quiz.
C6_Witness ==
    /\ last.op = "restart"
    /\ last.exc = "none"
    /\ last.before.had_quiz
    /\ last.before.submitted
    /\ last.before.index > 0
    /\ Fresh

\* The indices whose answer is set and equals the claim's label.
Matching == {i \in 1..N : Quiz.answers[i].value = Some(Quiz.biases[i].is_authentic)}

\* C7: the score is (correct, total) with total = N and correct the number of
\* indices whose value is set and equals is_authentic; for is_authentic
\* [true, false, true] answered [true, true, false] it is (1, 3).
C7_Score ==
    HasQuiz(session) =>
        /\ show_results(Quiz) = <<Cardinality(Matching), N>>
        /\ Matching = 1..N => show_results(Quiz) = <<N, N>>
        /\ ( /\ [i \in 1..N |-> Quiz.biases[i].is_authentic] = <<TRUE, FALSE, TRUE>>
             /\ [i \in 1..N |-> Quiz.answers[i].value]
                    = <<Some(TRUE), Some(TRUE), Some(FALSE)>> )
           => show_results(Quiz) = <<1, 3>>

\* The example quiz: labels [true, false, true] answered [true, true, false].
C7_Witness ==
    /\ HasQuiz(session)
    /\ [i \in 1..N |-> Quiz.biases[i].is_authentic] = <<TRUE, FALSE, TRUE>>
    /\ [i \in 1..N |-> Quiz.answers[i].value] = <<Some(TRUE), Some(TRUE), Some(FALSE)>>

RoundTrip ==
    /\ prev.op = "goNext"
    /\ last.op = "goPrev"
    /\ prev.before.had_quiz
    /\ ~prev.before.submitted
    /\ HasQuiz(session)
    /\ 0 < prev.before.index
    /\ prev.before.index < N - 1

\* C8: on a non-submitted quiz, goNext then goPrev from a non-boundary index
\* returns current_index to where it was, with revealed equal to (that
\* index's answer is set).
C8_NextPrevRoundTrip ==
    RoundTrip =>
        /\ Quiz.current_index = prev.before.index
        /\ session.revealed = (Quiz.answers[prev.before.index + 1].value # None)

\* A round trip from an unanswered middle question past an answered one.
C8_Witness ==
    /\ RoundTrip
    /\ Quiz.answers[prev.before.index + 1].value = None
    /\ Quiz.answers[prev.before.index + 2].value # None

AtBoundary(op) ==
    \/ op = "goPrev" /\ Quiz.current_index = 0
    \/ op = "goNext" /\ Quiz.current_index = N - 1

\* C9: goPrev at index 0 and goNext at index N - 1 leave the whole session
\* (cursor, answers, revealed, submitted) unchanged.
C9_BoundaryNoOp ==
    [][(HasQuiz(session) /\ AtBoundary(last'.op)) => session' = session]_vars

\* goPrev was called on an answered first question of a non-submitted quiz.
C9_Witness ==
    /\ HasQuiz(session)
    /\ last.op = "goPrev"
    /\ last.before.had_quiz
    /\ ~last.before.submitted
    /\ last.before.index = 0
    /\ Quiz.answers[1].value # None

AnsweredTwice ==
    /\ prev.op = "answer"
    /\ last.op = "answer"
    /\ prev.arg # last.arg
    /\ prev.before.had_quiz
    /\ ~prev.before.submitted
    /\ HasQuiz(session)

\* C10: on a non-submitted quiz, answer(v1) then answer(v2) with v2 # v1 on
\* the same index leaves revealed true and the answer holding v2 and
\* (v2 == is_authentic).
C10_LastWriteWins ==
    AnsweredTwice =>
        LET i == Quiz.current_index + 1
        IN  /\ session.revealed
            /\ Quiz.current_index = prev.before.index
            /\ Quiz.answers[i].value = Some(last.arg)
            /\ Quiz.answers[i].is_correct = Some(last.arg = Quiz.biases[i].is_authentic)

\* A right answer was overwritten by a wrong one.
C10_Witness ==
    /\ AnsweredTwice
    /\ Quiz.answers[Quiz.current_index + 1].is_correct = Some(FALSE)

\* C11: when the loader finds no data on a page run, no quiz is constructed:
\* the key stays absent and the page offers no control; and in a session
\* without a quiz nothing but page runs happens (no answer, goPrev, goNext
\* or submit).
C11_NoDataNoQuiz ==
    /\ []((last.op = "page" /\ last.loader = "stop") =>
            (~HasQuiz(session) /\ page(session) = {}))
    /\ [][~HasQuiz(session) => last'.op = "page"]_vars

\* The page ran, the loader stopped, and the session has no quiz.
C11_Witness ==
    /\ ~HasQuiz(session)
    /\ last.op = "page"
    /\ last.loader = "stop"
    /\ ~session.submitted

\* C12 as stated: once quiz creation has failed, no later event of the
\* session calls the loader again, and the session never obtains a quiz.
C12_NoRetry ==
    [][~HasQuiz(session) =>
          (last'.loader = "not called" /\ ~HasQuiz(session'))]_vars

InProgress == HasQuiz(session) /\ ~session.submitted

\* C13 as stated: while the quiz is in progress Prev is available exactly
\* when current_index > 0 and Next exactly when current_index < N - 1.
C13_NavGatedOnIndexOnly ==
    InProgress =>
        /\ (ENABLED ClickPrev) <=> (Quiz.current_index > 0)
        /\ (ENABLED ClickNext) <=> (Quiz.current_index < N - 1)

\* C13 amended: while the quiz is in progress Prev is available exactly when
\* current_index > 0 and some question is unanswered, and Next exactly when
\* current_index < N - 1 and some question is unanswered.
C13_NavGatedOnIndexAndUnanswered ==
    InProgress =>
        /\ (ENABLED ClickPrev)
              <=> (Quiz.current_index > 0 /\ ~all_answered(Quiz))
        /\ (ENABLED ClickNext)
              <=> (Quiz.current_index < N - 1 /\ ~all_answered(Quiz))

\* The last question of several was just answered, every other one is
\* answered too, and "Prev. Bias" cannot be clicked.
C13_Witness ==
    /\ InProgress
    /\ last.op = "answer"
    /\ Quiz.current_index > 0
    /\ all_answered(Quiz)
    /\ ~ENABLED ClickPrev

\* C14: answers and biases have the same length in every state, and no call
\* but restart changes the biases of a quiz (length, order or labels).
C14_ClaimsFixed ==
    /\ [](HasQuiz(session) => Len(Quiz.answers) = Len(Quiz.biases))
    /\ [][(HasQuiz(session) /\ last'.op # "restart") =>
            (HasQuiz(session') /\ session'.quiz[1].biases = Quiz.biases)]_vars

\* The last question of a quiz of Limit questions with both labels was answered.
C14_Witness ==
    /\ HasQuiz(session)
    /\ N = Limit
    /\ last.op = "answer"
    /\ last.before.had_quiz
    /\ ~last.before.submitted
    /\ last.before.index = N - 1
    /\ \E i, j \in 1..N : Quiz.biases[i].is_authentic /\ ~Quiz.biases[j].is_authentic

\* C15: on a non-submitted quiz, after every goPrev or goNext revealed equals
\* (the answer at the new current_index is set), whatever it was before.
C15_RevealFollowsCursor ==
    (last.op \in {"goPrev", "goNext"} /\ last.before.had_quiz
        /\ ~last.before.submitted /\ last.exc = "none") =>
        /\ HasQuiz(session)
        /\ session.revealed = (Quiz.answers[Quiz.current_index + 1].value # None)

\* goNext moved from an answered question, where revealed was true, onto an
\* unanswered one.
C15_Witness ==
    /\ HasQuiz(session)
    /\ prev.op = "answer"
    /\ last.op = "goNext"
    /\ ~last.before.submitted
    /\ Quiz.current_index = last.before.index + 1
    /\ Quiz.answers[last.before.index + 1].value # None
    /\ Quiz.answers[Quiz.current_index + 1].value = None

\* C16: on a non-submitted quiz, answer(v) changes only the answer at
\* current_index and revealed, which becomes true.
C16_AnswerFrame ==
    [][(last'.op = "answer" /\ InProgress) =>
          /\ session'.revealed
          /\ session' = [session EXCEPT
                !.revealed = TRUE,
                !.quiz[1].answers[Quiz.current_index + 1] =
                    session'.quiz[1].answers[Quiz.current_index + 1]]]_vars

\* A question was answered while another one stays unanswered and a third
\* keeps the answer it had.
C16_Witness ==
    /\ InProgress
    /\ last.op = "answer"
    /\ last.before.had_quiz
    /\ \E i, j \in 1..N :
          /\ i # Quiz.current_index + 1
          /\ j # Quiz.current_index + 1
          /\ Quiz.answers[i].value = None
          /\ Quiz.answers[j].value # None

\* C17: in every state that has a quiz, revealed is true iff the answer at
\* current_index is set.
C17_RevealedIffAnswered ==
    HasQuiz(session) =>
        (session.revealed <=> Quiz.answers[Quiz.current_index + 1].value # None)

\* goPrev came back onto an answered question from an unanswered one.
C17_Witness ==
    /\ HasQuiz(session)
    /\ last.op = "goPrev"
    /\ Quiz.current_index = last.before.index - 1
    /\ session.revealed
    /\ Quiz.answers[last.before.index + 1].value = None

\* C18: driven by the rendered controls, an answer once given keeps its value
\* and is_correct in every later state until restart.
C18_AnswerLockedIn ==
    [][(HasQuiz(session) /\ last'.op # "restart") =>
          /\ HasQuiz(session')
          /\ \A i \in 1..Len(Quiz.answers) :
                Quiz.answers[i].value # None =>
                    session'.quiz[1].answers[i] = Quiz.answers[i]]_vars

\* The cursor came back onto an answered question of a quiz in progress, and
\* neither answer button can be clicked.
C18_Witness ==
    /\ InProgress
    /\ last.op = "goPrev"
    /\ Quiz.current_index = last.before.index - 1
    /\ Quiz.answers[Quiz.current_index + 1].value # None
    /\ ~ENABLED ClickAnswer

\* A click on any of the rendered buttons.
Click == ClickAnswer \/ ClickPrev \/ ClickNext \/ ClickViewResults \/ ClickRestart

Unanswered == {i \in 1..N : Quiz.answers[i].value = None}

Abs(x) == IF x < 0 THEN 0 - x ELSE x

\* The clicks from the cursor to the nearest unanswered question.
Distance ==
    IF Unanswered = {} THEN 0
    ELSE CHOOSE d \in 0..N :
            /\ \E i \in Unanswered : Abs(i - 1 - Quiz.current_index) = d
            /\ \A i \in Unanswered : Abs(i - 1 - Quiz.current_index) >= d

\* A measure of the work left in a quiz: 0 exactly when it is submitted.
Rank ==
    IF session.submitted THEN 0
    ELSE 1 + Cardinality(Unanswered) * (N + 1) + Distance

\* C19: in every state with a quiz some button can be clicked, and in every
\* in-progress state some click lowers Rank, so that a sequence of at most
\* Rank clicks reaches submitted.
C19_CanAlwaysFinish ==
    /\ HasQuiz(session) => ENABLED Click
    /\ InProgress => ENABLED (Click /\ HasQuiz(session') /\ Rank' < Rank)

\* A quiz in progress whose current question is answered while the first
\* and the last are not: only navigation is offered.
C19_Witness ==
    /\ InProgress
    /\ N >= 3
    /\ session.revealed
    /\ Quiz.answers[1].value = None
    /\ Quiz.answers[N].value = None
    /\ ~ENABLED ClickAnswer
    /\ ~ENABLED ClickViewResults

====
